---- MODULE Spec2Model ----
(***************************************************************************)
(* Model of nhl_stats: the Team and Player entities with lazily loaded     *)
(* descriptive attributes (team.py, player.py), the bulk listing           *)
(* get_teams, and the roster / stats lookups.                              *)
(*                                                                         *)
(* One caller drives the library.  It holds one entity at a time (ent),    *)
(* reads attributes of it, calls its methods, and may take one of the      *)
(* objects a call returned as the entity it holds next.  The provider is   *)
(* the environment: every request is answered by a response drawn from a   *)
(* bounded family (timeout, error status, 200 with a well or ill shaped    *)
(* body).                                                                  *)
(*                                                                         *)
(* JSON and Python values: a dict is a function on strings, a list is a    *)
(* sequence, a scalar is a pair <<tag, n>>.  Python's None is None below.  *)
(***************************************************************************)
EXTENDS Integers, Sequences, FiniteSets, TLC

VARIABLES
    ent,    \* the entity object the caller holds (a Team or a Player)
    last,   \* history: what the last operation was, did and returned
    thr     \* the reader threads that share ent, each with its position

vars == <<ent, last, thr>>

---------------------------------------------------------------------------
(* Bounds of the model *)

\* entity identifiers are 1..MaxId
MaxId == 2
\* a provider document lacks at most MaxMissing of the keys of its full form
MaxMissing == 1
\* the bulk listing holds at most MaxListing entries
MaxListing == 2
\* a roster holds at most MaxRoster entries
MaxRoster == 2

Ids == 1..MaxId

---------------------------------------------------------------------------
(* Static tables of the source *)

\* team.py: Team._ATTRIBUTE_TO_API_ATTRIBUTE
Team_ATTRIBUTE_TO_API_ATTRIBUTE ==
    [ name               |-> "name",
      abbreviation       |-> "abbreviation",
      team_name          |-> "teamName",
      location_name      |-> "locationName",
      first_year_of_play |-> "firstYearOfPlay",
      active             |-> "active" ]

\* player.py: Player.ATTRIBUTE_TO_API_ATTRIBUTE
Player_ATTRIBUTE_TO_API_ATTRIBUTE ==
    [ name                 |-> "fullName",
      number               |-> "primaryNumber",
      birth_date           |-> "birthDate",
      birth_city           |-> "birthCity",
      birth_state_province |-> "birthStateProvince",
      birth_country        |-> "birthCountry",
      nationality          |-> "nationality",
      height               |-> "height",
      weight               |-> "weight",
      active               |-> "active",
      rookie               |-> "rookie",
      shoots_catches       |-> "shootsCatches",
      roster_status        |-> "rosterStatus" ]

\* player.py: Player.VALID_STATS
VALID_STATS ==
    { "yearByYear", "homeAndAway", "winLoss", "byMonth", "byDayOfWeek",
      "vsDivision", "vsConference", "vsTeam", "gameLog",
      "regularSeasonStatRankings", "goalsByGameSituation",
      "onPaceRegularSeason" }

\* team.py: Team.STATS_API_ATTRIBUTE_TO_STAT_ATTRIBUTE
STATS_API_ATTRIBUTE_TO_STAT_ATTRIBUTE ==
    [ gamesPlayed            |-> "games_played",
      wins                   |-> "wins",
      losses                 |-> "losses",
      ot                     |-> "ot",
      pts                    |-> "pts",
      ptPctg                 |-> "pt_pctg",
      goalsPerGame           |-> "goals_per_game",
      goalsAgainstPerGame    |-> "goals_against_per_game",
      evGGARatio             |-> "ev_gga_ratio",
      powerPlayPercentage    |-> "powerplay_percentage",
      powerPlayGoals         |-> "powerplay_goals",
      powerPlayGoalsAgainst  |-> "powerplay_goals_against",
      powerPlayOpportunities |-> "powerplay_opportunities",
      penaltyKillPercentage  |-> "penalty_kill_percentage",
      shotsPerGame           |-> "shots_per_game",
      shotsAllowed           |-> "shots_allowed_per_game",
      winScoreFirst          |-> "win_score_first",
      winOppScoreFirst       |-> "win_opp_score_first",
      winLeadFirstPer        |-> "win_lead_first_per",
      winLeadSecondPer       |-> "win_lead_second_per",
      winOutshootOpp         |-> "win_outshoot_opp",
      winOutshotByOpp        |-> "win_outshot_by_opp",
      faceOffsTaken          |-> "faceoffs_taken",
      faceOffsWon            |-> "faceoffs_won",
      faceOffsLost           |-> "faceoffs_lost",
      faceOffWinPercentage   |-> "faceoff_win_percentage",
      shootingPctg           |-> "shooting_pctg",
      savePctg               |-> "save_pctg" ]

\* team.py: the fields of the TeamStats dataclass, all of them required
TeamStatsFields ==
    { "games_played", "wins", "losses", "ot", "pts", "pt_pctg",
      "goals_per_game", "goals_against_per_game", "ev_gga_ratio",
      "powerplay_percentage", "powerplay_goals", "powerplay_goals_against",
      "powerplay_opportunities", "penalty_kill_percentage",
      "shots_per_game", "shots_allowed_per_game", "win_score_first",
      "win_opp_score_first", "win_lead_first_per", "win_lead_second_per",
      "win_outshoot_opp", "win_outshot_by_opp", "faceoffs_taken",
      "faceoffs_won", "faceoffs_lost", "faceoff_win_percentage",
      "shooting_pctg", "save_pctg" }

---------------------------------------------------------------------------
(* Python and JSON values *)

None == <<"None", 0>>

JInt(n) == <<"int", n>>

IntOf(v) == v[2]

\* Python truthiness of a scalar: None, 0 and False are falsy
Truthy(v) == v[2] # 0

\* the result of evaluating an expression: a value, or a raised exception
Ok(v) == [exc |-> "none", val |-> v]

Raise(e) == [exc |-> e, val |-> None]

\* r[key] for the dict that r evaluated to; an exception raised by r goes on
GetItem(r, key) ==
    IF r.exc # "none" THEN r
    ELSE IF key \in DOMAIN r.val THEN Ok(r.val[key]) ELSE Raise("KeyError")

\* r[i] for the list that r evaluated to, i counted from 0
GetIndex(r, i) ==
    IF r.exc # "none" THEN r
    ELSE IF (i + 1) \in DOMAIN r.val THEN Ok(r.val[i + 1]) ELSE Raise("IndexError")

\* d.get(key): None when the key is missing
DictGet(d, key) == IF key \in DOMAIN d THEN d[key] ELSE None

EmptyDict == [k \in {} |-> None]

---------------------------------------------------------------------------
(* The provider: the documents and responses it can send *)

\* the value the provider holds for field k of subject s; the active flag
\* is true for odd subjects and false for even ones
Val(k, s) == <<k, IF k = "active" THEN s % 2 ELSE s>>

Range(f) == {f[x] : x \in DOMAIN f}

\* the sets of at most n keys out of K
RECURSIVE Lack(_, _)
Lack(K, n) ==
    IF n = 0 THEN {{}}
    ELSE LET L == Lack(K, n - 1) IN L \cup {M \cup {k} : M \in L, k \in K}

Without(d, M) == [k \in DOMAIN d \ M |-> d[k]]

\* the full record of team s, as /teams and /teams/{id} give it
TeamRecord(s) ==
    [k \in Range(Team_ATTRIBUTE_TO_API_ATTRIBUTE) \cup {"id"} |->
        IF k = "id" THEN JInt(s) ELSE Val(k, s)]

\* the full record of player s, as /people/{id} gives it
PlayerRecord(s) ==
    [k \in Range(Player_ATTRIBUTE_TO_API_ATTRIBUTE) \cup {"id"} |->
        IF k = "id" THEN JInt(s) ELSE Val(k, s)]

\* the full stat document of team s
StatRecord(s) == [k \in DOMAIN STATS_API_ATTRIBUTE_TO_STAT_ATTRIBUTE |-> Val(k, s)]

TeamDocs(s) ==
    {Without(TeamRecord(s), M) :
        M \in Lack(Range(Team_ATTRIBUTE_TO_API_ATTRIBUTE), MaxMissing)}

PlayerDocs(s) ==
    {Without(PlayerRecord(s), M) :
        M \in Lack(Range(Player_ATTRIBUTE_TO_API_ATTRIBUTE), MaxMissing)}

\* a stat document may lack keys and may carry a key the library has no
\* mapping for
StatDocs(s) ==
    LET docs == {Without(StatRecord(s), M) :
                    M \in Lack(DOMAIN STATS_API_ATTRIBUTE_TO_STAT_ATTRIBUTE, MaxMissing)}
    IN  docs \cup {d @@ [blockedShots |-> Val("blockedShots", s)] : d \in docs}

\* a response: status 0 stands for no response at all (the request timed out)
Http(status, body) == [status |-> status, body |-> body]

FailedResponses == {Http(0, EmptyDict), Http(500, EmptyDict)}

\* what GET /teams/{id} may answer
TeamResponses(id) ==
    FailedResponses
    \cup {Http(200, EmptyDict), Http(200, [teams |-> <<>>])}
    \cup {Http(200, [teams |-> <<d>>]) : d \in TeamDocs(id)}

\* what GET /people/{id} may answer
PlayerResponses(id) ==
    FailedResponses
    \cup {Http(200, EmptyDict), Http(200, [people |-> <<>>])}
    \cup {Http(200, [people |-> <<d>>]) : d \in PlayerDocs(id)}

NoResponse == Http(0, EmptyDict)

\* the sequences over S of length at most n
Seqs(S, n) == UNION {[1..k -> S] : k \in 0..n}

\* what GET /teams may answer: the entries of one listing share their
\* shape, and what they may lack is the identifier, the active flag or the
\* team name
ListingResponses ==
    FailedResponses
    \cup {Http(200, EmptyDict)}
    \cup {Http(200, [teams |-> [i \in DOMAIN ids |-> Without(TeamRecord(ids[i]), M)]]) :
            ids \in Seqs(Ids, MaxListing),
            M \in Lack({"id", "active", "teamName"}, MaxMissing)}

\* a roster entry names a person, or is malformed
RosterEntries ==
    {[person |-> [id |-> JInt(i)]] : i \in Ids} \cup {[person |-> EmptyDict], EmptyDict}

\* what GET /teams/{id}?expand=team.roster may answer
RosterResponses ==
    FailedResponses
    \cup {Http(200, EmptyDict), Http(200, [teams |-> <<>>]),
          Http(200, [teams |-> <<EmptyDict>>]),
          Http(200, [teams |-> <<[roster |-> EmptyDict]>>])}
    \cup {Http(200, [teams |-> <<[roster |-> [roster |-> entries]]>>]) :
            entries \in Seqs(RosterEntries, MaxRoster)}

\* what GET /teams/{id}?expand=team.stats may answer
TeamStatsResponses(id) ==
    FailedResponses
    \cup {Http(200, EmptyDict), Http(200, [teams |-> <<>>]),
          Http(200, [teams |-> <<EmptyDict>>]),
          Http(200, [teams |-> <<[teamStats |-> <<>>]>>]),
          Http(200, [teams |-> <<[teamStats |-> <<EmptyDict>>]>>]),
          Http(200, [teams |-> <<[teamStats |-> <<[splits |-> <<>>]>>]>>]),
          Http(200, [teams |-> <<[teamStats |-> <<[splits |-> <<EmptyDict>>]>>]>>])}
    \cup {Http(200, [teams |-> <<[teamStats |-> <<[splits |-> <<[stat |-> d]>>]>>]>>]) :
            d \in StatDocs(id)}

\* what GET /people/{id}/stats may answer
PlayerStatsResponses(id) ==
    FailedResponses
    \cup {Http(200, EmptyDict), Http(200, [stats |-> <<Val("splits", id)>>])}

---------------------------------------------------------------------------
(* What an operation does: the object afterwards, the exception it raised
   ("none" when it returned), the value it returned, the requests it
   issued and the log records it wrote *)

Result(obj, exc, value, reqs, logs) ==
    [obj |-> obj, exc |-> exc, value |-> value, reqs |-> reqs, logs |-> logs]

Request(url, params) == [url |-> url, params |-> params]

LogRecord(logger, exc) == [logger |-> logger, exc |-> exc]

\* requests.get(...), response.raise_for_status(), response.json()
HttpGet(resp) ==
    IF resp.status = 0 THEN Raise("Timeout")
    ELSE IF resp.status >= 400 THEN Raise("HTTPError")
    ELSE Ok(resp.body)

\* the except clauses around every request: HTTPError and KeyError are
\* logged and raised again, any other exception passes them by
ExceptLog(r, logger) ==
    IF r.exc \in {"HTTPError", "KeyError"} THEN <<LogRecord(logger, r.exc)>> ELSE <<>>

\* object.__getattribute__: the instance's own attributes
IdAttribute(kind) == IF kind = "Team" THEN "team_id" ELSE "player_id"

object_getattribute(self, name) ==
    IF name \in DOMAIN self.attrs THEN Ok(self.attrs[name])
    ELSE IF name = IdAttribute(self.kind) THEN Ok(JInt(self.id))
    ELSE Raise("AttributeError")

---------------------------------------------------------------------------
(* player.py: class Player.  An object is its identifier, its
   _loaded_basic_info flag (loaded) and the descriptive attributes set on
   it so far (attrs, empty at construction).  src, fetched, failed and
   origin are history: the document the attributes were last populated
   from, the number of basic-info requests of this object that succeeded,
   whether the latest basic-info request of this object failed, and who
   constructed the object (the caller, get_teams or get_roster). *)

Player(player_id) ==
    [kind |-> "Player", id |-> player_id, loaded |-> FALSE, attrs |-> EmptyDict,
     src |-> EmptyDict, fetched |-> 0, failed |-> FALSE, origin |-> "caller"]

\* variant: the season parameter is sent even when no season is given
Player_get_stats_AlwaysSeason(self, stats, season, resp) ==
    IF stats \notin VALID_STATS THEN Result(self, "ValueError", None, <<>>, <<>>)
    ELSE IF stats = "yearByYear" /\ season # "" THEN Result(self, "ValueError", None, <<>>, <<>>)
    ELSE
        LET params == [stats |-> stats, season |-> season]
            req    == Request(<<"people", self.id, "stats">>, params)
            data   == GetItem(HttpGet(resp), "stats")
        IN  IF data.exc # "none"
            THEN Result(self, data.exc, None, <<req>>, ExceptLog(data, "player_log"))
            ELSE Result(self, "none", data.val, <<req>>, <<>>)

\* variant: a season is accepted with every stat type
Player_get_stats_NoSeasonCheck(self, stats, season, resp) ==
    IF stats \notin VALID_STATS THEN Result(self, "ValueError", None, <<>>, <<>>)
    ELSE
        LET params == IF season # "" THEN [stats |-> stats, season |-> season]
                      ELSE [stats |-> stats]
            req    == Request(<<"people", self.id, "stats">>, params)
            data   == GetItem(HttpGet(resp), "stats")
        IN  IF data.exc # "none"
            THEN Result(self, data.exc, None, <<req>>, ExceptLog(data, "player_log"))
            ELSE Result(self, "none", data.val, <<req>>, <<>>)

\* variant: a successful stats lookup marks the player as loaded
Player_get_stats_MarksLoaded(self, stats, season, resp) ==
    IF stats \notin VALID_STATS THEN Result(self, "ValueError", None, <<>>, <<>>)
    ELSE IF stats = "yearByYear" /\ season # "" THEN Result(self, "ValueError", None, <<>>, <<>>)
    ELSE
        LET params == IF season # "" THEN [stats |-> stats, season |-> season]
                      ELSE [stats |-> stats]
            req    == Request(<<"people", self.id, "stats">>, params)
            data   == GetItem(HttpGet(resp), "stats")
        IN  IF data.exc # "none"
            THEN Result(self, data.exc, None, <<req>>, ExceptLog(data, "player_log"))
            ELSE Result([self EXCEPT !.loaded = TRUE], "none", data.val, <<req>>, <<>>)

Player_get_stats(self, stats, season, resp) ==
    IF stats \notin VALID_STATS THEN Result(self, "ValueError", None, <<>>, <<>>)
    ELSE IF stats = "yearByYear" /\ season # "" THEN Result(self, "ValueError", None, <<>>, <<>>)
    ELSE
        LET params == IF season # "" THEN [stats |-> stats, season |-> season]
                      ELSE [stats |-> stats]
            req    == Request(<<"people", self.id, "stats">>, params)
            data   == GetItem(HttpGet(resp), "stats")
        IN  IF data.exc # "none"
            THEN Result(self, data.exc, None, <<req>>, ExceptLog(data, "player_log"))
            ELSE Result(self, "none", data.val, <<req>>, <<>>)

Player_get_basic_info(self, resp) ==
    IF self.loaded THEN Result(self, "none", None, <<>>, <<>>)
    ELSE
        LET req  == Request(<<"people", self.id>>, EmptyDict)
            data == GetIndex(GetItem(HttpGet(resp), "people"), 0)
        IN  IF data.exc # "none"
            THEN Result([self EXCEPT !.failed = TRUE], data.exc, None, <<req>>,
                        ExceptLog(data, "player_log"))
            ELSE Result(
                    [self EXCEPT
                        !.attrs = [a \in DOMAIN self.attrs \cup DOMAIN Player_ATTRIBUTE_TO_API_ATTRIBUTE |->
                                    IF a \in DOMAIN Player_ATTRIBUTE_TO_API_ATTRIBUTE
                                    THEN DictGet(data.val, Player_ATTRIBUTE_TO_API_ATTRIBUTE[a])
                                    ELSE self.attrs[a]],
                        !.loaded = TRUE,
                        !.src = data.val,
                        !.fetched = @ + 1,
                        !.failed = FALSE],
                    "none", None, <<req>>, <<>>)

Player_getattr(self, name, resp) ==
    LET info == IF name \in DOMAIN Player_ATTRIBUTE_TO_API_ATTRIBUTE
                THEN Player_get_basic_info(self, resp)
                ELSE Result(self, "none", None, <<>>, <<>>)
        got  == object_getattribute(info.obj, name)
    IN  IF info.exc # "none" THEN info
        ELSE Result(info.obj, got.exc, got.val, info.reqs, info.logs)

---------------------------------------------------------------------------
(* team.py: class Team *)

Team(team_id) ==
    [kind |-> "Team", id |-> team_id, loaded |-> FALSE, attrs |-> EmptyDict,
     src |-> EmptyDict, fetched |-> 0, failed |-> FALSE, origin |-> "caller"]

\* variant: only the fields the record holds are set
Team_load_basic_info_SkipMissing(self, basic_info) ==
    [self EXCEPT
        !.attrs = [a \in DOMAIN self.attrs \cup
                        {b \in DOMAIN Team_ATTRIBUTE_TO_API_ATTRIBUTE :
                            Team_ATTRIBUTE_TO_API_ATTRIBUTE[b] \in DOMAIN basic_info} |->
                    IF a \in DOMAIN Team_ATTRIBUTE_TO_API_ATTRIBUTE
                    THEN DictGet(basic_info, Team_ATTRIBUTE_TO_API_ATTRIBUTE[a])
                    ELSE self.attrs[a]],
        !.loaded = TRUE,
        !.src = basic_info]

\* variant: the record is read under the attribute's own name
Team_load_basic_info_OwnNames(self, basic_info) ==
    [self EXCEPT
        !.attrs = [a \in DOMAIN self.attrs \cup DOMAIN Team_ATTRIBUTE_TO_API_ATTRIBUTE |->
                    IF a \in DOMAIN Team_ATTRIBUTE_TO_API_ATTRIBUTE
                    THEN DictGet(basic_info, a)
                    ELSE self.attrs[a]],
        !.loaded = TRUE,
        !.src = basic_info]

\* variant: the loaded flag is left as it was
Team_load_basic_info_NoFlag(self, basic_info) ==
    [self EXCEPT
        !.attrs = [a \in DOMAIN self.attrs \cup DOMAIN Team_ATTRIBUTE_TO_API_ATTRIBUTE |->
                    IF a \in DOMAIN Team_ATTRIBUTE_TO_API_ATTRIBUTE
                    THEN DictGet(basic_info, Team_ATTRIBUTE_TO_API_ATTRIBUTE[a])
                    ELSE self.attrs[a]],
        !.src = basic_info]

\* variant: the loaded flag is set only when the record has a name
Team_load_basic_info_FlagFromData(self, basic_info) ==
    [self EXCEPT
        !.attrs = [a \in DOMAIN self.attrs \cup DOMAIN Team_ATTRIBUTE_TO_API_ATTRIBUTE |->
                    IF a \in DOMAIN Team_ATTRIBUTE_TO_API_ATTRIBUTE
                    THEN DictGet(basic_info, Team_ATTRIBUTE_TO_API_ATTRIBUTE[a])
                    ELSE self.attrs[a]],
        !.loaded = ("name" \in DOMAIN basic_info),
        !.src = basic_info]

Team_load_basic_info(self, basic_info) ==
    [self EXCEPT
        !.attrs = [a \in DOMAIN self.attrs \cup DOMAIN Team_ATTRIBUTE_TO_API_ATTRIBUTE |->
                    IF a \in DOMAIN Team_ATTRIBUTE_TO_API_ATTRIBUTE
                    THEN DictGet(basic_info, Team_ATTRIBUTE_TO_API_ATTRIBUTE[a])
                    ELSE self.attrs[a]],
        !.loaded = TRUE,
        !.src = basic_info]

\* variant: the loaded flag is set before the request is made
Team_get_basic_info_MarkFirst(self, resp) ==
    IF self.loaded THEN Result(self, "none", None, <<>>, <<>>)
    ELSE
        LET req  == Request(<<"teams", self.id>>, EmptyDict)
            data == GetIndex(GetItem(HttpGet(resp), "teams"), 0)
        IN  IF data.exc # "none"
            THEN Result([self EXCEPT !.loaded = TRUE, !.failed = TRUE], data.exc, None, <<req>>,
                        ExceptLog(data, "team_logger"))
            ELSE Result([Team_load_basic_info(self, data.val) EXCEPT
                            !.fetched = @ + 1, !.failed = FALSE],
                        "none", None, <<req>>, <<>>)

Team_get_basic_info(self, resp) ==
    IF self.loaded THEN Result(self, "none", None, <<>>, <<>>)
    ELSE
        LET req  == Request(<<"teams", self.id>>, EmptyDict)
            data == GetIndex(GetItem(HttpGet(resp), "teams"), 0)
        IN  IF data.exc # "none"
            THEN Result([self EXCEPT !.failed = TRUE], data.exc, None, <<req>>,
                        ExceptLog(data, "team_logger"))
            ELSE Result([Team_load_basic_info(self, data.val) EXCEPT
                            !.fetched = @ + 1, !.failed = FALSE],
                        "none", None, <<req>>, <<>>)

\* variant: the basic info is fetched whatever the name is
Team_getattr_FetchAlways(self, name, resp) ==
    LET info == Team_get_basic_info(self, resp)
        got  == object_getattribute(info.obj, name)
    IN  IF info.exc # "none" THEN info
        ELSE Result(info.obj, got.exc, got.val, info.reqs, info.logs)

\* variant: the name is looked up in the stats table
Team_getattr_WrongTable(self, name, resp) ==
    LET info == IF name \in DOMAIN STATS_API_ATTRIBUTE_TO_STAT_ATTRIBUTE
                THEN Team_get_basic_info(self, resp)
                ELSE Result(self, "none", None, <<>>, <<>>)
        got  == object_getattribute(info.obj, name)
    IN  IF info.exc # "none" THEN info
        ELSE Result(info.obj, got.exc, got.val, info.reqs, info.logs)

Team_getattr(self, name, resp) ==
    LET info == IF name \in DOMAIN Team_ATTRIBUTE_TO_API_ATTRIBUTE
                THEN Team_get_basic_info(self, resp)
                ELSE Result(self, "none", None, <<>>, <<>>)
        got  == object_getattribute(info.obj, name)
    IN  IF info.exc # "none" THEN info
        ELSE Result(info.obj, got.exc, got.val, info.reqs, info.logs)

\* variant: the basic info of every player of the roster is fetched too
Team_get_roster_Cascade(self, season, resp) ==
    LET params == IF season # "" THEN [expand |-> "team.roster", season |-> season]
                  ELSE [expand |-> "team.roster"]
        req    == Request(<<"teams", self.id>>, params)
        data   == GetItem(GetItem(GetIndex(GetItem(HttpGet(resp), "teams"), 0), "roster"), "roster")
        ident(player_info) == GetItem(GetItem(Ok(player_info), "person"), "id")
        fetch(player_info) ==
            Player_get_basic_info(
                [Player(IntOf(ident(player_info).val)) EXCEPT !.origin = "get_roster"],
                Http(200, [people |-> <<PlayerRecord(IntOf(ident(player_info).val))>>]))
    IN  IF data.exc # "none"
        THEN Result(self, data.exc, None, <<req>>, ExceptLog(data, "team_logger"))
        ELSE IF \E i \in DOMAIN data.val : ident(data.val[i]).exc # "none"
        THEN Result(self, "KeyError", None, <<req>>, <<>>)
        ELSE Result(self, "none",
                    [i \in DOMAIN data.val |-> fetch(data.val[i]).obj],
                    <<req>> \o [i \in DOMAIN data.val |-> fetch(data.val[i]).reqs[1]],
                    <<>>)

\* variant: a team whose basic info is loaded answers without a request
Team_get_roster_Cached(self, season, resp) ==
    LET params == IF season # "" THEN [expand |-> "team.roster", season |-> season]
                  ELSE [expand |-> "team.roster"]
        req    == Request(<<"teams", self.id>>, params)
        data   == GetItem(GetItem(GetIndex(GetItem(HttpGet(resp), "teams"), 0), "roster"), "roster")
        ident(player_info) == GetItem(GetItem(Ok(player_info), "person"), "id")
    IN  IF self.loaded THEN Result(self, "none", <<>>, <<>>, <<>>)
        ELSE IF data.exc # "none"
        THEN Result(self, data.exc, None, <<req>>, ExceptLog(data, "team_logger"))
        ELSE IF \E i \in DOMAIN data.val : ident(data.val[i]).exc # "none"
        THEN Result(self, "KeyError", None, <<req>>, <<>>)
        ELSE Result(self, "none",
                    [i \in DOMAIN data.val |->
                        [Player(IntOf(ident(data.val[i]).val)) EXCEPT !.origin = "get_roster"]],
                    <<req>>, <<>>)

\* variant: the roster lookup also loads the team record of its response
Team_get_roster_Reload(self, season, resp) ==
    LET params == IF season # "" THEN [expand |-> "team.roster", season |-> season]
                  ELSE [expand |-> "team.roster"]
        req    == Request(<<"teams", self.id>>, params)
        team   == GetIndex(GetItem(HttpGet(resp), "teams"), 0)
        data   == GetItem(GetItem(team, "roster"), "roster")
        ident(player_info) == GetItem(GetItem(Ok(player_info), "person"), "id")
    IN  IF data.exc # "none"
        THEN Result(self, data.exc, None, <<req>>, ExceptLog(data, "team_logger"))
        ELSE IF \E i \in DOMAIN data.val : ident(data.val[i]).exc # "none"
        THEN Result(self, "KeyError", None, <<req>>, <<>>)
        ELSE Result(Team_load_basic_info(self, team.val), "none",
                    [i \in DOMAIN data.val |->
                        [Player(IntOf(ident(data.val[i]).val)) EXCEPT !.origin = "get_roster"]],
                    <<req>>, <<>>)

Team_get_roster(self, season, resp) ==
    LET params == IF season # "" THEN [expand |-> "team.roster", season |-> season]
                  ELSE [expand |-> "team.roster"]
        req    == Request(<<"teams", self.id>>, params)
        data   == GetItem(GetItem(GetIndex(GetItem(HttpGet(resp), "teams"), 0), "roster"), "roster")
        ident(player_info) == GetItem(GetItem(Ok(player_info), "person"), "id")
    IN  IF data.exc # "none"
        THEN Result(self, data.exc, None, <<req>>, ExceptLog(data, "team_logger"))
        ELSE IF \E i \in DOMAIN data.val : ident(data.val[i]).exc # "none"
        THEN Result(self, "KeyError", None, <<req>>, <<>>)
        ELSE Result(self, "none",
                    [i \in DOMAIN data.val |->
                        [Player(IntOf(ident(data.val[i]).val)) EXCEPT !.origin = "get_roster"]],
                    <<req>>, <<>>)

\* TeamStats(**transformed_data): every field of the dataclass is required
\* and no other keyword is accepted
TeamStats(kwargs) ==
    IF DOMAIN kwargs = TeamStatsFields THEN Ok(kwargs) ELSE Raise("TypeError")

\* variant: the dataclass is frozen, assigning a field raises
TeamStats_setattr_Frozen(self, name, value) ==
    [exc |-> "FrozenInstanceError", val |-> self]

\* @dataclass without frozen=True: the generated class keeps the default
\* attribute assignment, a field of an instance takes the assigned value
TeamStats_setattr(self, name, value) ==
    [exc |-> "none", val |-> [self EXCEPT ![name] = value]]

\* variant: a key of the document that the table does not map is skipped
Team_get_team_stats_DropUnmapped(self, season, resp) ==
    LET params == IF season # "" THEN [expand |-> "team.stats", season |-> season]
                  ELSE [expand |-> "team.stats"]
        req    == Request(<<"teams", self.id>>, params)
        data   == GetItem(GetIndex(GetItem(GetIndex(GetItem(GetIndex(GetItem(
                      HttpGet(resp), "teams"), 0), "teamStats"), 0), "splits"), 0), "stat")
        table  == STATS_API_ATTRIBUTE_TO_STAT_ATTRIBUTE
    IN  IF data.exc # "none"
        THEN Result(self, data.exc, None, <<req>>, ExceptLog(data, "team_logger"))
        ELSE
            LET mapped == DOMAIN data.val \cap DOMAIN table
                transformed_data ==
                    [f \in {table[k] : k \in mapped} |->
                        data.val[CHOOSE k \in mapped : table[k] = f]]
                made == TeamStats(transformed_data)
            IN  Result(self, made.exc, made.val, <<req>>, <<>>)

Team_get_team_stats(self, season, resp) ==
    LET params == IF season # "" THEN [expand |-> "team.stats", season |-> season]
                  ELSE [expand |-> "team.stats"]
        req    == Request(<<"teams", self.id>>, params)
        data   == GetItem(GetIndex(GetItem(GetIndex(GetItem(GetIndex(GetItem(
                      HttpGet(resp), "teams"), 0), "teamStats"), 0), "splits"), 0), "stat")
        table  == STATS_API_ATTRIBUTE_TO_STAT_ATTRIBUTE
    IN  IF data.exc # "none"
        THEN Result(self, data.exc, None, <<req>>, ExceptLog(data, "team_logger"))
        ELSE IF \E api_attribute \in DOMAIN data.val : api_attribute \notin DOMAIN table
        THEN Result(self, "KeyError", None, <<req>>, <<>>)
        ELSE
            LET transformed_data ==
                    [f \in {table[k] : k \in DOMAIN data.val} |->
                        data.val[CHOOSE k \in DOMAIN data.val : table[k] = f]]
                made == TeamStats(transformed_data)
            IN  Result(self, made.exc, made.val, <<req>>, <<>>)

\* variant: an entry without an active flag counts as active
get_teams_ActiveByDefault(only_active, resp) ==
    LET req  == Request(<<"teams">>, EmptyDict)
        data == GetItem(HttpGet(resp), "teams")
        Kept(team_info) ==
            ~(only_active /\ ~Truthy(IF "active" \in DOMAIN team_info
                                      THEN team_info["active"] ELSE <<"bool", 1>>))
    IN  IF data.exc # "none"
        THEN Result(None, data.exc, None, <<req>>, ExceptLog(data, "team_logger"))
        ELSE
            LET kept == SelectSeq(data.val, Kept)
            IN  IF \E i \in DOMAIN kept : "id" \notin DOMAIN kept[i]
                THEN Result(None, "KeyError", None, <<req>>, <<>>)
                ELSE Result(None, "none",
                            [i \in DOMAIN kept |->
                                Team_load_basic_info(
                                    [Team(IntOf(kept[i]["id"])) EXCEPT !.origin = "get_teams"],
                                    kept[i])],
                            <<req>>, <<>>)

\* team.py: the module function get_teams
get_teams(only_active, resp) ==
    LET req  == Request(<<"teams">>, EmptyDict)
        data == GetItem(HttpGet(resp), "teams")
        Kept(team_info) ==
            ~(only_active /\ ~Truthy(IF "active" \in DOMAIN team_info
                                      THEN team_info["active"] ELSE <<"bool", 0>>))
    IN  IF data.exc # "none"
        THEN Result(None, data.exc, None, <<req>>, ExceptLog(data, "team_logger"))
        ELSE
            LET kept == SelectSeq(data.val, Kept)
            IN  IF \E i \in DOMAIN kept : "id" \notin DOMAIN kept[i]
                THEN Result(None, "KeyError", None, <<req>>, <<>>)
                ELSE Result(None, "none",
                            [i \in DOMAIN kept |->
                                Team_load_basic_info(
                                    [Team(IntOf(kept[i]["id"])) EXCEPT !.origin = "get_teams"],
                                    kept[i])],
                            <<req>>, <<>>)

---------------------------------------------------------------------------
(* The attribute read obj.name: Python looks the name up on the object and
   calls the class's __getattr__ only when that lookup fails *)

ReadAttribute(self, name, resp) ==
    LET found == object_getattribute(self, name)
    IN  IF found.exc = "none" THEN Result(self, "none", found.val, <<>>, <<>>)
        ELSE IF self.kind = "Team" THEN Team_getattr(self, name, resp)
        ELSE Player_getattr(self, name, resp)

\* the names the caller reads: every descriptive field of either class,
\* the identifiers, and a name no class defines
Names ==
    DOMAIN Team_ATTRIBUTE_TO_API_ATTRIBUTE \cup DOMAIN Player_ATTRIBUTE_TO_API_ATTRIBUTE
    \cup {"team_id", "player_id", "nickname"}

\* the descriptive fields of an object's class
Fields(kind) ==
    IF kind = "Team" THEN DOMAIN Team_ATTRIBUTE_TO_API_ATTRIBUTE
    ELSE DOMAIN Player_ATTRIBUTE_TO_API_ATTRIBUTE

\* the responses the provider may give to the basic-info request of self
InfoResponses(self) ==
    IF self.kind = "Team" THEN TeamResponses(self.id) ELSE PlayerResponses(self.id)

---------------------------------------------------------------------------
(* The caller's steps.  The caller is sequential: it makes a call, looks at
   what the call did and returned (last), and goes on to the next call. *)

\* history record of one operation: pre is the object it was called on as
\* it was before the call; resp is the response to its request, when it
\* issued one
Done(op, args, pre, r, resp) ==
    [op |-> op, args |-> args, pre |-> pre, exc |-> r.exc, value |-> r.value,
     reqs |-> r.reqs, logs |-> r.logs,
     resp |-> IF r.reqs = <<>> THEN NoResponse ELSE resp]

NoArgs == [name |-> "", season |-> "", stats |-> "", only_active |-> FALSE]

\* between two calls
Idle(obj) == Done("idle", NoArgs, obj, Result(obj, "none", None, <<>>, <<>>), NoResponse)

\* the responses an operation may meet: those of the provider when the
\* operation issues a request, and none to choose from when it issues none
\* (probe is the operation run against a provider that does not answer)
Answers(probe, family) == IF probe.reqs = <<>> THEN {NoResponse} ELSE family

Init ==
    /\ ent \in {Team(i) : i \in Ids} \cup {Player(i) : i \in Ids}
    /\ last = Idle(ent)
    /\ thr = <<>>

\* the caller is done with the result of the last call
Continue ==
    /\ last.op # "idle"
    /\ ent' = ent
    /\ last' = Idle(ent)
    /\ UNCHANGED thr

\* Team(team_id=...) / Player(player_id=...): the caller constructs an entity
Construct ==
    /\ last.op = "idle"
    /\ \E i \in Ids, kind \in {"Team", "Player"} :
        /\ ent' = IF kind = "Team" THEN Team(i) ELSE Player(i)
        /\ last' = Done("construct", NoArgs, ent',
                        Result(ent', "none", None, <<>>, <<>>), NoResponse)
    /\ UNCHANGED thr

\* value = ent.name
Read ==
    /\ last.op = "idle"
    /\ \E name \in Names :
        \E resp \in Answers(ReadAttribute(ent, name, NoResponse), InfoResponses(ent)) :
            LET r == ReadAttribute(ent, name, resp)
            IN  /\ ent' = r.obj
                /\ last' = Done("read", [NoArgs EXCEPT !.name = name], ent, r, resp)
    /\ UNCHANGED thr

\* ent.load_basic_info(basic_info): the caller hands a Team a record of it
LoadBasicInfo ==
    /\ last.op = "idle"
    /\ ent.kind = "Team"
    /\ \E basic_info \in TeamDocs(ent.id) :
        /\ ent' = Team_load_basic_info(ent, basic_info)
        /\ last' = Done("load_basic_info", NoArgs, ent,
                        Result(ent', "none", None, <<>>, <<>>), NoResponse)
    /\ UNCHANGED thr

Seasons == {"", "20162017"}

\* teams = get_teams(only_active)
GetTeams ==
    /\ last.op = "idle"
    /\ \E only_active \in BOOLEAN, resp \in ListingResponses :
        /\ ent' = ent
        /\ last' = Done("get_teams", [NoArgs EXCEPT !.only_active = only_active], ent,
                        get_teams(only_active, resp), resp)
    /\ UNCHANGED thr

\* players = ent.get_roster(season)
GetRoster ==
    /\ last.op = "idle"
    /\ ent.kind = "Team"
    /\ \E season \in Seasons, resp \in RosterResponses :
        LET r == Team_get_roster(ent, season, resp)
        IN  /\ ent' = r.obj
            /\ last' = Done("get_roster", [NoArgs EXCEPT !.season = season], ent, r, resp)
    /\ UNCHANGED thr

\* team_stats = ent.get_team_stats(season)
GetTeamStats ==
    /\ last.op = "idle"
    /\ ent.kind = "Team"
    /\ \E season \in Seasons, resp \in TeamStatsResponses(ent.id) :
        LET r == Team_get_team_stats(ent, season, resp)
        IN  /\ ent' = r.obj
            /\ last' = Done("get_team_stats", [NoArgs EXCEPT !.season = season], ent, r, resp)
    /\ UNCHANGED thr

\* the stat types the caller asks for: the valid ones and one that is not
StatTypes == VALID_STATS \cup {"shifts"}

\* data = ent.get_stats(stats, season)
GetStats ==
    /\ last.op = "idle"
    /\ ent.kind = "Player"
    /\ \E stats \in StatTypes, season \in Seasons :
        \E resp \in Answers(Player_get_stats(ent, stats, season, NoResponse),
                             PlayerStatsResponses(ent.id)) :
            LET r == Player_get_stats(ent, stats, season, resp)
            IN  /\ ent' = r.obj
                /\ last' = Done("get_stats", [NoArgs EXCEPT !.stats = stats, !.season = season],
                                ent, r, resp)
    /\ UNCHANGED thr

\* the caller keeps one of the objects the last call returned and drops
\* the list
\* the values a caller assigns to a field of a TeamStats it was returned
AssignedValues == {JInt(0), JInt(99)}

\* the caller assigns a field of the TeamStats that get_team_stats returned
SetStat ==
    /\ last.op = "get_team_stats"
    /\ last.exc = "none"
    /\ \E name \in TeamStatsFields, value \in AssignedValues :
        LET r == TeamStats_setattr(last.value, name, value)
        IN  last' = [last EXCEPT !.op = "setattr",
                                 !.args = [NoArgs EXCEPT !.name = name],
                                 !.exc = r.exc,
                                 !.value = r.val,
                                 !.reqs = <<>>]
    /\ UNCHANGED ent
    /\ UNCHANGED thr

Hold ==
    /\ last.op \in {"get_teams", "get_roster"}
    /\ last.exc = "none"
    /\ \E i \in DOMAIN last.value :
        /\ ent' = last.value[i]
        /\ last' = Done("hold", NoArgs, ent', Result(ent', "none", None, <<>>, <<>>), NoResponse)
    /\ UNCHANGED thr

Next ==
    \/ Continue
    \/ Construct
    \/ Read
    \/ LoadBasicInfo
    \/ GetTeams
    \/ GetRoster
    \/ GetTeamStats
    \/ GetStats
    \/ SetStat
    \/ Hold

Spec == Init /\ [][Next]_vars

---------------------------------------------------------------------------
(* Properties *)

\* the name-mapping table of an object's class
Table(kind) ==
    IF kind = "Team" THEN Team_ATTRIBUTE_TO_API_ATTRIBUTE
    ELSE Player_ATTRIBUTE_TO_API_ATTRIBUTE

\* the request a basic-info fetch of obj issues
InfoRequest(obj) ==
    Request(<<IF obj.kind = "Team" THEN "teams" ELSE "people", obj.id>>, EmptyDict)

\* the key of the basic-info response that holds the record of obj
InfoKey(obj) == IF obj.kind = "Team" THEN "teams" ELSE "people"

---------------------------------------------------------------------------
(* Two threads read fields of one shared entity.  The source takes no lock,
   so a read is a sequence of separate steps of the interpreter: the normal
   lookup, the test of the loaded flag, the request, one setattr per
   descriptive attribute, the assignment of the flag, the final lookup.
   The steps of the two readers interleave freely. *)

Readers == {1, 2}

\* the names the readers read: two recognized fields and one that is not
ReaderNames == {"name", "active", "nickname"}

\* the descriptive attributes in the order the population loop sets them
AttributeOrder(kind) ==
    IF kind = "Team"
    THEN <<"name", "abbreviation", "team_name", "location_name",
           "first_year_of_play", "active">>
    ELSE <<"name", "number", "birth_date", "birth_city", "birth_state_province",
           "birth_country", "nationality", "height", "weight", "active",
           "rookie", "shoots_catches", "roster_status">>

\* what the provider answers to a reader's request: as to the caller of the
\* sequential model, with records that differ in the fields the readers read
ReaderResponses(self) ==
    LET record == IF self.kind = "Team" THEN TeamRecord(self.id) ELSE PlayerRecord(self.id)
        keys   == {Table(self.kind)[a] : a \in ReaderNames \cap DOMAIN Table(self.kind)}
        docs   == {Without(record, M) : M \in Lack(keys, MaxMissing)}
    IN  FailedResponses
        \cup {Http(200, EmptyDict)}
        \cup (IF self.kind = "Team"
              THEN {Http(200, [teams |-> <<>>])} \cup {Http(200, [teams |-> <<d>>]) : d \in docs}
              ELSE {Http(200, [people |-> <<>>])} \cup {Http(200, [people |-> <<d>>]) : d \in docs})

\* a reader about to evaluate obj.name
Reader(name) ==
    [pc |-> "lookup", name |-> name, saw |-> "nothing", reqs |-> <<>>,
     data |-> EmptyDict, i |-> 1, exc |-> "none", value |-> None]

\* the reader's read ends: it returns value or raises exc
Finish(t, exc, value) ==
    thr' = [thr EXCEPT ![t].pc = "done", ![t].exc = exc, ![t].value = value]

InitThreads ==
    /\ ent \in {Team(i) : i \in Ids} \cup {Player(i) : i \in Ids}
    /\ last = Idle(ent)
    /\ thr \in [Readers -> {Reader(name) : name \in ReaderNames}]

\* obj.name: the normal lookup; __getattr__ is entered when it fails, and
\* for a name outside the table goes straight to __getattribute__
Lookup(t) ==
    /\ thr[t].pc = "lookup"
    /\ LET found == object_getattribute(ent, thr[t].name)
       IN  IF found.exc = "none" THEN Finish(t, "none", found.val)
           ELSE IF thr[t].name \in DOMAIN Table(ent.kind)
           THEN thr' = [thr EXCEPT ![t].pc = "check"]
           ELSE thr' = [thr EXCEPT ![t].pc = "getattribute"]
    /\ UNCHANGED <<ent, last>>

\* _get_basic_info: if self._loaded_basic_info: return
CheckLoaded(t) ==
    /\ thr[t].pc = "check"
    /\ thr' = [thr EXCEPT ![t].saw = IF ent.loaded THEN "loaded" ELSE "unloaded",
                          ![t].pc  = IF ent.loaded THEN "getattribute" ELSE "request"]
    /\ UNCHANGED <<ent, last>>

\* variant: the flag is tested again before the request is made
Fetch_Recheck(t) ==
    /\ thr[t].pc = "request"
    /\ IF ent.loaded
       THEN /\ thr' = [thr EXCEPT ![t].pc = "getattribute"]
            /\ ent' = ent
       ELSE \E resp \in ReaderResponses(ent) :
            LET data == GetIndex(GetItem(HttpGet(resp), InfoKey(ent)), 0)
            IN  IF data.exc # "none"
                THEN /\ thr' = [thr EXCEPT ![t].pc = "done", ![t].exc = data.exc,
                                           ![t].reqs = <<InfoRequest(ent)>>]
                     /\ ent' = [ent EXCEPT !.failed = TRUE]
                ELSE /\ thr' = [thr EXCEPT ![t].pc = "setattr", ![t].data = data.val,
                                           ![t].reqs = <<InfoRequest(ent)>>]
                     /\ ent' = ent
    /\ UNCHANGED last

\* _get_basic_info: the try block, the request and the record of its answer
Fetch(t) ==
    /\ thr[t].pc = "request"
    /\ \E resp \in ReaderResponses(ent) :
        LET data == GetIndex(GetItem(HttpGet(resp), InfoKey(ent)), 0)
        IN  IF data.exc # "none"
            THEN /\ thr' = [thr EXCEPT ![t].pc = "done", ![t].exc = data.exc,
                                       ![t].reqs = <<InfoRequest(ent)>>]
                 /\ ent' = [ent EXCEPT !.failed = TRUE]
            ELSE /\ thr' = [thr EXCEPT ![t].pc = "setattr", ![t].data = data.val,
                                       ![t].reqs = <<InfoRequest(ent)>>]
                 /\ ent' = ent
    /\ UNCHANGED last

\* one turn of the population loop: setattr(self, attribute, data.get(...))
SetAttribute(t) ==
    /\ thr[t].pc = "setattr"
    /\ LET order     == AttributeOrder(ent.kind)
           attribute == order[thr[t].i]
       IN  /\ ent' = [ent EXCEPT
                        !.attrs = [a \in DOMAIN ent.attrs \cup {attribute} |->
                                    IF a = attribute
                                    THEN DictGet(thr[t].data, Table(ent.kind)[attribute])
                                    ELSE ent.attrs[a]]]
           /\ thr' = [thr EXCEPT ![t].i  = @ + 1,
                                 ![t].pc = IF thr[t].i = Len(order) THEN "flag" ELSE "setattr"]
    /\ UNCHANGED last

\* self._loaded_basic_info = True
SetLoaded(t) ==
    /\ thr[t].pc = "flag"
    /\ ent' = [ent EXCEPT !.loaded = TRUE, !.src = thr[t].data,
                          !.fetched = @ + 1, !.failed = FALSE]
    /\ thr' = [thr EXCEPT ![t].pc = "getattribute"]
    /\ UNCHANGED last

\* return self.__getattribute__(name)
Getattribute(t) ==
    /\ thr[t].pc = "getattribute"
    /\ LET got == object_getattribute(ent, thr[t].name)
       IN  Finish(t, got.exc, got.val)
    /\ UNCHANGED <<ent, last>>

NextThreads ==
    \E t \in Readers :
        \/ Lookup(t)
        \/ CheckLoaded(t)
        \/ Fetch(t)
        \/ SetAttribute(t)
        \/ SetLoaded(t)
        \/ Getattribute(t)

SpecThreads == InitThreads /\ [][NextThreads]_vars

---------------------------------------------------------------------------
(* The claims *)

\* the last operation was a read of a recognized descriptive field
RecognizedRead == last.op = "read" /\ last.args.name \in Fields(last.pre.kind)

\* the objects the last operation returned
Returned ==
    IF last.op \in {"get_teams", "get_roster"} /\ last.exc = "none"
    THEN Range(last.value) ELSE {}

\* C1: a read of a recognized field on an entity that is not loaded issues
\* exactly one request, the basic-info request of that entity; once a
\* basic-info request of an entity has succeeded, a read of a recognized
\* field of it issues no request; so no entity ever makes more than one
\* successful basic-info fetch
C1_FetchOnce ==
    /\ ent.fetched <= 1
    /\ RecognizedRead =>
        /\ ~last.pre.loaded => last.reqs = <<InfoRequest(last.pre)>>
        /\ last.pre.fetched >= 1 => last.reqs = <<>> /\ last.exc = "none"

C1_Witness ==
    /\ RecognizedRead
    /\ last.pre.fetched = 1
    /\ last.reqs = <<>>
    /\ last.exc = "none"

\* the descriptive attributes of obj are all set or all unset
AllOrNothing(obj) ==
    \/ DOMAIN obj.attrs \cap Fields(obj.kind) = {}
    \/ Fields(obj.kind) \subseteq DOMAIN obj.attrs

\* C2: between operations the descriptive attributes of the entity held,
\* and of every entity an operation returned, are all set or all unset
C2_AllOrNothing ==
    /\ AllOrNothing(ent)
    /\ \A obj \in Returned : AllOrNothing(obj)

\* a fetch populated a Team from a record that lacks one of the fields
C2_Witness ==
    /\ RecognizedRead
    /\ ent.kind = "Team"
    /\ last.reqs # <<>>
    /\ last.exc = "none"
    /\ \E a \in Fields("Team") : Team_ATTRIBUTE_TO_API_ATTRIBUTE[a] \notin DOMAIN ent.src
    /\ Fields("Team") \subseteq DOMAIN ent.attrs

\* the response to a basic-info request of obj is a failure: no response,
\* a status that is not a success, or a body without the expected key
FailedInfo(obj, resp) ==
    \/ resp.status # 200
    \/ InfoKey(obj) \notin DOMAIN resp.body

\* C3: when the basic-info fetch of a read fails, the read raises, it has
\* issued exactly one request, the entity stays not loaded with no
\* descriptive attribute set; and a read of a recognized field after a
\* failed fetch issues the basic-info request again
C3_FailedFetch ==
    /\ (last.op = "read" /\ last.reqs # <<>> /\ FailedInfo(last.pre, last.resp)) =>
        /\ last.exc \in {"Timeout", "HTTPError", "KeyError"}
        /\ last.resp.status >= 400 => last.exc = "HTTPError"
        /\ last.resp.status = 200 => last.exc = "KeyError"
        /\ Len(last.reqs) = 1
        /\ ~ent.loaded
        /\ DOMAIN ent.attrs \cap Fields(ent.kind) = {}
    /\ (RecognizedRead /\ last.pre.failed /\ ~last.pre.loaded) =>
        last.reqs = <<InfoRequest(last.pre)>>

\* a read after a failed fetch issued the request again, and failed again
C3_Witness ==
    /\ RecognizedRead
    /\ last.pre.failed
    /\ ~last.pre.loaded
    /\ Len(last.reqs) = 1
    /\ last.exc = "HTTPError"
    /\ ~ent.loaded

\* the last operation was a read of a name that is neither a descriptive
\* field of the object's class nor an attribute the constructor set
UnrecognizedRead ==
    /\ last.op = "read"
    /\ last.args.name \notin Fields(last.pre.kind)
    /\ last.args.name # IdAttribute(last.pre.kind)

C5_EagerLoaded ==
    /\ (last.op = "get_teams" /\ last.exc = "none") =>
        /\ last.reqs = <<Request(<<"teams">>, EmptyDict)>>
        /\ \A i \in DOMAIN last.value :
            /\ last.value[i].kind = "Team"
            /\ last.value[i].loaded
            /\ last.value[i].fetched = 0
    /\ (RecognizedRead /\ last.pre.loaded /\ last.pre.fetched = 0) =>
        /\ last.reqs = <<>>
        /\ last.exc = "none"
        /\ ent.fetched = 0

\* a recognized field was read on a Team that get_teams returned
C5_Witness ==
    /\ RecognizedRead
    /\ last.pre.origin = "get_teams"
    /\ last.pre.loaded
    /\ last.reqs = <<>>
    /\ last.exc = "none"

\* the arguments of a get_stats call pass its validation
ValidStatsArgs(args) ==
    /\ args.stats \in VALID_STATS
    /\ ~(args.stats = "yearByYear" /\ args.season # "")

\* C6: every get_roster and get_team_stats call, and every get_stats call
\* with valid arguments, issues exactly one request, whether the entity is
\* loaded or not
C6_NeverCached ==
    /\ last.op \in {"get_roster", "get_team_stats"} =>
        /\ Len(last.reqs) = 1
        /\ last.reqs[1].url = <<"teams", last.pre.id>>
    /\ (last.op = "get_stats" /\ ValidStatsArgs(last.args)) =>
        /\ Len(last.reqs) = 1
        /\ last.reqs[1].url = <<"people", last.pre.id, "stats">>

\* the roster of a loaded Team was looked up with a request
C6_Witness ==
    /\ last.op = "get_roster"
    /\ last.pre.loaded
    /\ Len(last.reqs) = 1
    /\ last.exc = "none"

\* C7: get_stats with a stat type outside the allow-list, or with
\* yearByYear and a season, raises ValueError, issues no request and leaves
\* the player as it was
C7_ValidationFirst ==
    (last.op = "get_stats" /\ ~ValidStatsArgs(last.args)) =>
        /\ last.exc = "ValueError"
        /\ last.reqs = <<>>
        /\ last.logs = <<>>
        /\ ent = last.pre

\* get_stats was called with yearByYear and a season
C7_Witness ==
    /\ last.op = "get_stats"
    /\ last.args.stats = "yearByYear"
    /\ last.args.season = "20162017"
    /\ last.exc = "ValueError"

\* the response to the roster request holds a roster whose entries all
\* name a person
HasRoster(resp) ==
    /\ resp.status = 200
    /\ "teams" \in DOMAIN resp.body
    /\ Len(resp.body["teams"]) >= 1
    /\ "roster" \in DOMAIN resp.body["teams"][1]
    /\ "roster" \in DOMAIN resp.body["teams"][1]["roster"]
    /\ \A e \in Range(resp.body["teams"][1]["roster"]["roster"]) :
        "person" \in DOMAIN e /\ "id" \in DOMAIN e["person"]

RosterOf(resp) == resp.body["teams"][1]["roster"]["roster"]

\* C8: for a roster response of k entries get_roster returns k Players,
\* whose identifiers are the person ids of the entries in their order, none
\* of them loaded and none with a descriptive attribute, and it has issued
\* one request
C8_RosterPlayers ==
    (last.op = "get_roster" /\ HasRoster(last.resp)) =>
        /\ last.exc = "none"
        /\ Len(last.reqs) = 1
        /\ Len(last.value) = Len(RosterOf(last.resp))
        /\ \A i \in DOMAIN last.value :
            /\ last.value[i].kind = "Player"
            /\ last.value[i].id = IntOf(RosterOf(last.resp)[i]["person"]["id"])
            /\ ~last.value[i].loaded
            /\ last.value[i].attrs = EmptyDict
            /\ last.value[i].fetched = 0

\* a roster of two different persons was returned
C8_Witness ==
    /\ last.op = "get_roster"
    /\ last.exc = "none"
    /\ Len(last.value) = 2
    /\ last.value[1].id = 2
    /\ last.value[2].id = 1

\* the response to the basic-info request of obj holds a record
HasInfo(obj, resp) ==
    /\ resp.status = 200
    /\ InfoKey(obj) \in DOMAIN resp.body
    /\ Len(resp.body[InfoKey(obj)]) >= 1

InfoOf(obj, resp) == resp.body[InfoKey(obj)][1]

\* every descriptive attribute of obj holds what the record obj was
\* populated from holds under the mapped name, None where it holds nothing
Populated(obj) ==
    \A a \in Fields(obj.kind) :
        /\ a \in DOMAIN obj.attrs
        /\ obj.attrs[a] = DictGet(obj.src, Table(obj.kind)[a])

\* C9: a fetch whose response holds a record succeeds whatever fields the
\* record lacks; a loaded entity, fetched or handed its record, holds for
\* every recognized field the record's value under the mapped name, and
\* None where the record has none; a read of a recognized field of a loaded
\* entity returns that value and issues no request
C9_MappedValues ==
    /\ (last.op = "read" /\ last.reqs # <<>> /\ HasInfo(last.pre, last.resp)) =>
        /\ last.exc = "none"
        /\ ent.loaded
        /\ ent.src = InfoOf(last.pre, last.resp)
        /\ last.value = DictGet(InfoOf(last.pre, last.resp), Table(ent.kind)[last.args.name])
    /\ ent.loaded => Populated(ent)
    /\ (last.op = "get_teams" /\ last.exc = "none") =>
        \A obj \in Range(last.value) :
            /\ Populated(obj)
            /\ obj.src \in Range(last.resp.body["teams"])
    /\ (RecognizedRead /\ last.pre.loaded) =>
        /\ last.exc = "none"
        /\ last.value = DictGet(last.pre.src, Table(last.pre.kind)[last.args.name])
        /\ last.reqs = <<>>

\* a field that the record lacks was read on a loaded entity
C9_Witness ==
    /\ RecognizedRead
    /\ last.pre.loaded
    /\ Table(last.pre.kind)[last.args.name] \notin DOMAIN last.pre.src
    /\ last.value = None
    /\ last.exc = "none"
    /\ last.reqs = <<>>

\* the response to the stats request holds a stat document
HasStat(resp) ==
    /\ resp.status = 200
    /\ "teams" \in DOMAIN resp.body
    /\ Len(resp.body["teams"]) >= 1
    /\ "teamStats" \in DOMAIN resp.body["teams"][1]
    /\ Len(resp.body["teams"][1]["teamStats"]) >= 1
    /\ "splits" \in DOMAIN resp.body["teams"][1]["teamStats"][1]
    /\ Len(resp.body["teams"][1]["teamStats"][1]["splits"]) >= 1
    /\ "stat" \in DOMAIN resp.body["teams"][1]["teamStats"][1]["splits"][1]

StatOf(resp) == resp.body["teams"][1]["teamStats"][1]["splits"][1]["stat"]

\* C10: when the stat document holds a key the stats table does not map,
\* get_team_stats raises and returns nothing; when it returns a TeamStats,
\* every key of the document is mapped and the TeamStats holds the
\* document's value under the mapped name
C10_ExactTranslation ==
    last.op = "get_team_stats" =>
        /\ (/\ HasStat(last.resp)
            /\ \E k \in DOMAIN StatOf(last.resp) :
                    k \notin DOMAIN STATS_API_ATTRIBUTE_TO_STAT_ATTRIBUTE) =>
            /\ last.exc = "KeyError"
            /\ last.value = None
        /\ last.exc = "none" =>
            /\ HasStat(last.resp)
            /\ DOMAIN last.value = TeamStatsFields
            /\ \A k \in DOMAIN StatOf(last.resp) :
                /\ k \in DOMAIN STATS_API_ATTRIBUTE_TO_STAT_ATTRIBUTE
                /\ last.value[STATS_API_ATTRIBUTE_TO_STAT_ATTRIBUTE[k]] = StatOf(last.resp)[k]

\* the stat document held every mapped key and one that is not mapped
C10_Witness ==
    /\ last.op = "get_team_stats"
    /\ HasStat(last.resp)
    /\ DOMAIN StatOf(last.resp) =
            DOMAIN STATS_API_ATTRIBUTE_TO_STAT_ATTRIBUTE \cup {"blockedShots"}
    /\ last.exc = "KeyError"

\* the last operation got a success status and still raised: the body was
\* not of the shape the operation expects
StructuralFailure ==
    /\ last.reqs # <<>>
    /\ last.resp.status = 200
    /\ last.exc # "none"

\* C11 as stated: every operation that fails on the shape of a successful
\* response has written a log record, and raises something other than the
\* transport errors
C11_Original ==
    StructuralFailure =>
        /\ last.logs # <<>>
        /\ last.exc \notin {"HTTPError", "Timeout"}

\* the entries of a listing that get_teams is to return
Listed(only_active, resp) ==
    LET Active(e) == "active" \in DOMAIN e /\ e["active"] = <<"active", 1>>
        Wanted(e) == ~only_active \/ Active(e)
    IN  SelectSeq(resp.body["teams"], Wanted)

\* the response to the listing request holds a listing
HasListing(resp) == resp.status = 200 /\ "teams" \in DOMAIN resp.body

\* C12: get_teams issues one request; for a listing whose wanted entries
\* all carry an id it returns one Team per wanted entry, in listing order
\* and with the entry's id, where every entry is wanted when only_active
\* is false and only the entries whose active flag is true when it is true
C12_Listing ==
    last.op = "get_teams" =>
        /\ last.reqs = <<Request(<<"teams">>, EmptyDict)>>
        /\ last.exc = "none" => HasListing(last.resp)
        /\ HasListing(last.resp) =>
            LET wanted == Listed(last.args.only_active, last.resp)
            IN  IF \A i \in DOMAIN wanted : "id" \in DOMAIN wanted[i]
                THEN /\ last.exc = "none"
                     /\ Len(last.value) = Len(wanted)
                     /\ \A i \in DOMAIN wanted :
                         /\ last.value[i].kind = "Team"
                         /\ last.value[i].id = IntOf(wanted[i]["id"])
                         /\ last.value[i].src = wanted[i]
                ELSE last.exc = "KeyError"

\* of a listing of two teams only the active one was returned
C12_Witness ==
    /\ last.op = "get_teams"
    /\ last.args.only_active
    /\ last.exc = "none"
    /\ Len(last.resp.body["teams"]) = 2
    /\ Len(last.value) = 1
    /\ last.value[1].id = 1

\* C13: a get_stats call whose arguments pass the validation issues one
\* request to the stats path of the player, whose parameters are the stat
\* type under stats and, exactly when a season was given, that season
\* under season
C13_StatsParams ==
    (last.op = "get_stats" /\ ValidStatsArgs(last.args)) =>
        /\ Len(last.reqs) = 1
        /\ last.reqs[1].url = <<"people", last.pre.id, "stats">>
        /\ last.reqs[1].params["stats"] = last.args.stats
        /\ "season" \in DOMAIN last.reqs[1].params <=> last.args.season # ""
        /\ last.args.season # "" => last.reqs[1].params["season"] = last.args.season
        /\ DOMAIN last.reqs[1].params \subseteq {"stats", "season"}

\* get_stats('gameLog') with no season
C13_Witness ==
    /\ last.op = "get_stats"
    /\ last.args.stats = "gameLog"
    /\ last.args.season = ""
    /\ last.exc = "none"
    /\ DOMAIN last.reqs[1].params = {"stats"}

\* the operations a caller has on one entity
EntityOps == {"read", "load_basic_info", "get_roster", "get_team_stats", "get_stats"}

\* the roster and stats lookups
LookupOps == {"get_roster", "get_team_stats", "get_stats"}

\* the last operation left the descriptive fields as they were
FieldsKept ==
    /\ ent.attrs = last.pre.attrs
    /\ ent.src = last.pre.src

\* C14 as stated: no operation on an already populated entity, the
\* load_basic_info call included, writes the descriptive fields again
C14_Original ==
    (last.op \in EntityOps /\ last.pre.loaded) => FieldsKept

\* C14: a field read, a roster lookup or a stats lookup on an already
\* populated entity issues no basic-info request and leaves the
\* descriptive fields as they were; load_basic_info has no such guard and
\* populates the Team from the record it is given each time it is called
C14_PopulatedOnceByReads ==
    /\ (last.op \in EntityOps \ {"load_basic_info"} /\ last.pre.loaded) =>
        /\ FieldsKept
        /\ \A i \in DOMAIN last.reqs : last.reqs[i] # InfoRequest(last.pre)
    /\ last.op = "load_basic_info" =>
        /\ ent.loaded
        /\ ent.src \in TeamDocs(ent.id)
        /\ Populated(ent)

\* the roster of a populated Team was looked up and its fields stayed
C14_Witness ==
    /\ last.op = "get_roster"
    /\ last.exc = "none"
    /\ last.pre.loaded
    /\ \E a \in DOMAIN ent.attrs : ent.attrs[a] # None
    /\ FieldsKept

\* C17: get_roster, get_team_stats and get_stats, whether they return or
\* raise, leave the entity's identifier, loaded flag and descriptive
\* attributes as they were before the call
C17_LookupsKeepEntity ==
    last.op \in LookupOps =>
        /\ ent.kind = last.pre.kind
        /\ ent.id = last.pre.id
        /\ ent.loaded = last.pre.loaded
        /\ ent.attrs = last.pre.attrs

\* a stats lookup on an unloaded Player returned and the Player is as before
C17_Witness ==
    /\ last.op = "get_stats"
    /\ last.exc = "none"
    /\ ~last.pre.loaded
    /\ ent = last.pre

\* C18: the loaded flag is false at construction, by the caller or by
\* get_roster, and no operation of the library on an entity whose flag is
\* true leaves it false
C18_LoadedMonotone ==
    /\ [](last.op = "construct" => ~ent.loaded)
    /\ []((last.op = "get_roster" /\ last.exc = "none") =>
            \A i \in DOMAIN last.value : ~last.value[i].loaded)
    /\ [][(last'.op \notin {"construct", "hold"} /\ ent.loaded) => ent'.loaded]_vars

\* load_basic_info was called on a loaded Team with another record
C18_Witness ==
    /\ last.op = "load_basic_info"
    /\ last.pre.loaded
    /\ ent.src # last.pre.src
    /\ ent.loaded

\* the TeamStats that translates the stat document of resp
Snapshot(resp) ==
    [f \in TeamStatsFields |->
        StatOf(resp)[CHOOSE k \in DOMAIN STATS_API_ATTRIBUTE_TO_STAT_ATTRIBUTE :
                        STATS_API_ATTRIBUTE_TO_STAT_ATTRIBUTE[k] = f]]

\* C15 as stated: a TeamStats that get_team_stats returned equals the
\* snapshot translated from the response, also after a field of it was
\* assigned
C15_Original ==
    (last.op \in {"get_team_stats", "setattr"} /\ last.exc = "none") =>
        last.value = Snapshot(last.resp)

\* C15: the TeamStats that get_team_stats returns equals the snapshot
\* translated from the response; it is not immutable: assigning a field of
\* it raises nothing, the field then holds the assigned value in place of
\* the snapshot's and every other field is as in the snapshot
C15_MutableSnapshot ==
    /\ (last.op = "get_team_stats" /\ last.exc = "none") =>
        last.value = Snapshot(last.resp)
    /\ last.op = "setattr" =>
        /\ last.exc = "none"
        /\ last.value[last.args.name] \in AssignedValues
        /\ last.value[last.args.name] # Snapshot(last.resp)[last.args.name]
        /\ \A f \in TeamStatsFields \ {last.args.name} :
                last.value[f] = Snapshot(last.resp)[f]

\* the wins of a returned TeamStats were assigned 99
C15_Witness ==
    /\ last.op = "setattr"
    /\ last.args.name = "wins"
    /\ last.value["wins"] = JInt(99)
    /\ Snapshot(last.resp)["wins"] # JInt(99)

\* C16: field reads of two threads on one entity are not serialized.  A
\* reader issues a basic-info request exactly when its own test of the
\* loaded flag saw false, whatever the other reader has done since: the
\* test, the request and the population are separate steps, so both
\* readers of a fresh entity can see false and both fetch
C16_CheckThenFetch ==
    \A t \in DOMAIN thr :
        /\ thr[t].reqs # <<>> =>
            /\ thr[t].saw = "unloaded"
            /\ thr[t].reqs = <<InfoRequest(ent)>>
        /\ (thr[t].saw = "unloaded" /\ thr[t].pc # "request") => thr[t].reqs # <<>>
        /\ thr[t].saw = "loaded" => thr[t].reqs = <<>>

\* both readers saw the flag false and both fetched: two requests and two
\* populations of one entity
C16_Witness ==
    /\ DOMAIN thr = Readers
    /\ \A t \in Readers :
        /\ thr[t].saw = "unloaded"
        /\ thr[t].reqs = <<InfoRequest(ent)>>
        /\ thr[t].pc = "done"
    /\ ent.fetched = 2

====
